---- MODULE Spec2Model ----
(***************************************************************************)
(* AirCal backend: the reconcile pass (api/sync.py do_sync), its triggers  *)
(* (services/sync_scheduler.py, the manual sync endpoint), the local       *)
(* mutation handlers (api/events.py) and the remote CalDAV account.        *)
(*                                                                         *)
(* Granularity: one action per stretch of handler code between two points  *)
(* where the coroutine really suspends on I/O.  Every handler and every    *)
(* pass works in its own SQLAlchemy session: objects it loaded or changed  *)
(* stay private until its db.commit(), which writes, per row, the columns  *)
(* whose value differs from the loaded one.  A session flushes its changes  *)
(* before its next query (autoflush) and then holds SQLite's write lock     *)
(* until it commits or is closed; a session that finds the database locked  *)
(* waits for the holder (the busy timeout is not modelled).                 *)
(***************************************************************************)
EXTENDS Integers, Sequences, FiniteSets, TLC

\* ---- bounds of the model ----
MaxSeq == 1
MaxEvents == 2
MaxPasses == 2
MaxTime == 3
MaxPatchFields == 1

\* ---- domains ----
Calendars == {"c1", "c2"}
CalOrder == <<"c1", "c2">>
UIDs == {"u1", "u2", "u3"}
UidOrder == <<"u1", "u2", "u3">>
Summaries == {"a", "b"}
\* the (calendar, uid) pairs of the model: a uid is unique within a calendar
Keys == {<<"c1", "u1">>, <<"c1", "u3">>, <<"c2", "u2">>, <<"c2", "u3">>}
Slots == {"sched", "manual"}
None == "None"
Pending == {"pending_create", "pending_update"}

\* ---- time ----
\* Instants are counted in half days: the even ones are midnights.  A value
\* is a python datetime, or a python date (date |-> TRUE) whose v is the
\* midnight that opens the day; NoTime stands for a property that is absent.
Day == 2
Instants == 0..MaxTime
DT(n) == [v |-> n, date |-> FALSE]
D(n) == [v |-> n - (n % Day), date |-> TRUE]
NoTime == [v |-> -1, date |-> FALSE]

\* ---- canonical text (services/icalendar_service.py) ----
\* A text is the list of the properties of its first VEVENT that the codec
\* reads or writes.  LOCATION is handled as DESCRIPTION is, RECURRENCE-ID and
\* LAST-MODIFIED are read as EXDATE is; they are left out.  sequence = -1,
\* exdate = -1, rdate = -1, duration = -1: the property is absent.
Text(kind, u, s, d, st, en, r, ex, rd, n) ==
    [kind |-> kind, uid |-> u, summary |-> s, description |-> d, dtstart |-> st,
     dtend |-> en, duration |-> -1, rrule |-> r, exdate |-> ex, rdate |-> rd,
     sequence |-> n]
\* a text with DURATION in place of DTEND
WithDuration(t, duration) == [t EXCEPT !.dtend = NoTime, !.duration = duration]
VEvent(u, s, n) == Text("vevent", u, s, None, DT(0), DT(1), None, -1, -1, n)
Garbage == Text("garbage", "", "", None, NoTime, NoTime, None, -1, -1, 0)
NoVEvent == Text("novevent", "", "", None, NoTime, NoTime, None, -1, -1, 0)

\* recurrence rules.  Daily is in the form vRecur writes, DailyOnce is the
\* rule limited to one occurrence; DailyAlt is the same
\* rule with its parts in another order; Unevaluable is a rule vRecur accepts
\* and recurring_ical_events cannot evaluate (it names no FREQ); Malformed is no rule at all.
Daily == "FREQ=DAILY;INTERVAL=1"
DailyAlt == "INTERVAL=1;FREQ=DAILY"
DailyOnce == "FREQ=DAILY;COUNT=1"
Unevaluable == "INTERVAL=1"
Malformed == "garbage"
\* vRecur.from_ical(rule).to_ical(): the parts in canonical order
vRecur(rule) == IF rule = DailyAlt THEN Daily ELSE rule

\* variant: an event without DTEND ends when it starts
MissingEndIsStart(t) == t.dtstart

\* parse_icalendar lines 28-38: the end of an event without DTEND.  A date
\* plus a timedelta is a date, a datetime plus a timedelta a datetime.
MissingEnd(t) ==
    IF t.duration # -1
    THEN IF t.dtstart.date THEN D(t.dtstart.v + t.duration) ELSE DT(t.dtstart.v + t.duration)
    ELSE IF t.dtstart.date THEN D(t.dtstart.v + Day)
    ELSE t.dtstart

\* parse_icalendar lines 13-78
parse_icalendar(t) ==
    LET all_day == t.dtstart.date
        start_dt == IF all_day THEN DT(t.dtstart.v) ELSE t.dtstart
        end == IF t.dtend # NoTime THEN t.dtend ELSE MissingEnd(t)
        end_dt == IF all_day /\ end.date THEN DT(end.v) ELSE end
        Parsed(res) ==
            [res |-> res, uid |-> t.uid, summary |-> t.summary,
             description |-> t.description, start_dt |-> start_dt, end_dt |-> end_dt,
             all_day |-> all_day, rrule |-> t.rrule, exdate |-> t.exdate,
             sequence |-> IF t.sequence = -1 THEN 0 ELSE t.sequence]
    IN  CASE t.kind = "garbage" -> [Parsed("raise") EXCEPT !.uid = ""]
          [] t.kind = "novevent" -> [Parsed("empty") EXCEPT !.uid = ""]
          [] OTHER -> Parsed("ok")

\* create_icalendar lines 83-116: event is an EventCreate
create_icalendar(event, uid) ==
    Text("vevent", uid, event.summary,
         IF event.description \notin {None, ""} THEN event.description ELSE None,
         IF event.all_day THEN D(event.start) ELSE DT(event.start),
         IF event.all_day THEN D(event.end) ELSE DT(event.end),
         IF event.rrule \notin {None, ""} THEN vRecur(event.rrule) ELSE None,
         -1, -1, 0)

\* variant: the revision counter is written back as it was read
SameSequence(sequence) == IF sequence = -1 THEN 0 ELSE sequence

\* update_icalendar lines 166-169: a missing SEQUENCE counts as 0
NextSequence(sequence) == (IF sequence = -1 THEN 0 ELSE sequence) + 1

\* variant: no patch is refused
NoPatchError(t, upd) == FALSE

\* update_icalendar raises: del component["dtend"] on a text without DTEND
\* (line 149), vRecur.from_ical on a malformed rule (line 159)
PatchError(t, upd) ==
    \/ upd.end # -1 /\ t.dtend = NoTime
    \/ upd.rrule = Malformed

\* update_icalendar lines 124-173: upd is an EventUpdate.  Where a statement
\* raises, the text is given as the statements before it left it.
update_icalendar(t, upd) ==
    LET date == upd.all_day = "True"
        patched ==
          [t EXCEPT
             !.summary = IF upd.summary # None THEN upd.summary ELSE @,
             !.description = IF upd.description = None THEN @
                             ELSE IF upd.description # "" THEN upd.description ELSE None,
             !.dtstart = IF upd.start = -1 THEN @
                         ELSE IF date THEN D(upd.start) ELSE DT(upd.start),
             !.dtend = IF upd.end = -1 \/ t.dtend = NoTime THEN @
                       ELSE IF date THEN D(upd.end) ELSE DT(upd.end)]
    IN  IF upd.end # -1 /\ t.dtend = NoTime THEN patched
        ELSE IF upd.rrule = Malformed THEN [patched EXCEPT !.rrule = None]
        ELSE [patched EXCEPT
                !.rrule = IF upd.rrule = None THEN @
                          ELSE IF upd.rrule # "" THEN vRecur(upd.rrule) ELSE None,
                !.sequence = NextSequence(@)]

\* ---- local rows (models/event.py) ----
Event(h, s, d, st, en, ad, r, ex, n, t, status) ==
    [href |-> h, summary |-> s, description |-> d, start_dt |-> st, end_dt |-> en,
     all_day |-> ad, rrule |-> r, exdate |-> ex, sequence |-> n, icalendar_data |-> t,
     sync_status |-> status]
Cols == {"href", "summary", "description", "start_dt", "end_dt", "all_day", "rrule",
         "exdate", "sequence", "icalendar_data", "sync_status"}
DataCols == Cols \ {"href", "sync_status"}

Href(k) == k[2]

\* ---- requests (schemas/event.py) ----
\* start, end = -1 and all_day = "None": the field is not given
EventCreate(s, d, st, en, ad, r) ==
    [summary |-> s, description |-> d, start |-> st, end |-> en, all_day |-> ad, rrule |-> r]
EventUpdate(s, d, st, en, ad, r) ==
    [summary |-> s, description |-> d, start |-> st, end |-> en, all_day |-> ad, rrule |-> r]
NoUpdate == EventUpdate(None, None, -1, -1, None, None)

\* create_event lines 143-159: the row built from the request (sequence and
\* exdate are not given: the column default and NULL)
db_event(event, uid, href, status) ==
    Event(href, event.summary, event.description, DT(event.start), DT(event.end),
          event.all_day, event.rrule, -1, 0, create_icalendar(event, uid), status)

VARIABLES
    app,               \* lifespan position: "starting", "initial_sync", "running"
    credentials,       \* stored credentials row present
    revoked,           \* the server rejects the credentials the application holds
    caldav_service,    \* _caldav_service is set
    calendars,         \* Calendar rows: id -> [last_synced]
    events,            \* Event rows: <<calendar_id, uid>> -> row
    remote,            \* resources on the server: <<calendar, resource>> -> text
    sync_task,         \* _sync_task: "None" or "sleeping" / "syncing" loop position
    loop_tasks,        \* the _sync_loop tasks that exist in the event loop
    sync_in_progress,  \* _sync_in_progress
    last_sync_time,    \* _last_sync_time (0 = None)
    now,               \* logical clock
    pass,              \* per trigger slot: the do_sync coroutine and its session
    req,               \* the event request handler in flight
    db_lock,           \* the session holding SQLite's write lock, or "None"
    envEvents,         \* user requests, foreign changes and transport faults so far
    quiet, tombstones  \* history used to state the claims

vars == <<app, credentials, revoked, caldav_service, calendars, events, remote, sync_task,
          loop_tasks,
          sync_in_progress, last_sync_time, now, pass, req, db_lock,
          envEvents, quiet, tombstones>>

Restrict(f, S) == [x \in S |-> f[x]]
Without(f, k) == Restrict(f, DOMAIN f \ {k})

IdlePass ==
    [pc |-> "idle", cals |-> <<>>, dav_events |-> <<>>, seen_uids |-> {},
     calendars_synced |-> 0, events_updated |-> 0, sess |-> <<>>, cal_ts |-> <<>>,
     fetch |-> <<>>, fetch_error |-> FALSE, fetched |-> 0, unparsed |-> 0, failed |-> {},
     deleted_before |-> {}, edited |-> <<>>, created |-> {}, fetches |-> <<>>]

\* The store and the account when the application starts.  The account holds
\* an unparsable resource and an event; the store is empty, or holds a record
\* left by an earlier create_event whose PUT reached the server while its
\* response was lost (so the record has no handle).
InitialAccount == (<<"c2", "u2">> :> Garbage) @@ (<<"c2", "u3">> :> VEvent("u3", "a", 0))
LostCreate == <<"c1", "u1">>
InitialStores ==
    { [events |-> <<>>, remote |-> InitialAccount],
      [events |-> (LostCreate :> db_event(EventCreate("a", None, 0, 1, FALSE, None), "u1",
                                          None, "pending_create")),
       remote |-> (LostCreate :> create_icalendar(EventCreate("a", None, 0, 1, FALSE, None),
                                                  "u1")) @@ InitialAccount] }

\* history: n = 0 nothing known; 1 a pass runs alone and undisturbed; 2 such a
\* pass has committed and nothing happened since; 3 a pass started in 2 runs
\* alone and undisturbed
Dirty == [n |-> 0, slot |-> ""]
\* history: the scheduler was stopped while its pass was in flight
Abandoned == [n |-> 0, slot |-> "abandoned"]

IdleReq == [op |-> "idle", pc |-> "", key |-> <<"", "">>,
            orig |-> Event(None, "", None, NoTime, NoTime, FALSE, None, -1, 0, Garbage, ""),
            obj |-> Event(None, "", None, NoTime, NoTime, FALSE, None, -1, 0, Garbage, ""),
            attempt |-> FALSE, pushed |-> FALSE]

Init ==
    /\ app = "starting"
    /\ credentials \in BOOLEAN
    /\ revoked = FALSE
    /\ caldav_service = FALSE
    /\ calendars = IF credentials THEN [c \in Calendars |-> [last_synced |-> 0]] ELSE <<>>
    /\ \E s \in InitialStores : events = s.events /\ remote = s.remote
    /\ sync_task = "None"
    /\ loop_tasks = 0
    /\ sync_in_progress = FALSE
    /\ last_sync_time = 0
    /\ now = 0
    /\ pass = [p \in Slots |-> IdlePass]
    /\ req = IdleReq
    /\ db_lock = None
    /\ envEvents = 0
    /\ quiet = Dirty
    /\ tombstones = {}

\* a remote call that fails although the server is there (network fault)
Faulty(o) == o \in {"fail", "lost", "error", "skip"}
MayFail == envEvents < MaxEvents
Count(o) == envEvents' = IF Faulty(o) /\ ~revoked THEN envEvents + 1 ELSE envEvents

Disturb == quiet' = Dirty
Calm == UNCHANGED quiet


\* ---- reconcile pass: api/sync.py do_sync ----
StartedPass ==
    [IdlePass EXCEPT !.pc = "fetch",
                     !.cals = SelectSeq(CalOrder, LAMBDA c : c \in DOMAIN calendars),
                     !.deleted_before = tombstones]

QuietStart(p) ==
    IF \E q \in Slots \ {p} : pass[q].pc # "idle" THEN Dirty
    ELSE [n |-> IF quiet.n = 2 THEN 3 ELSE 1, slot |-> p]

\* do_sync lines 25-38: service check, select(Calendar), counters; the
\* ValueError of lines 28 and 35 ends the call at once
Raises == ~caldav_service \/ DOMAIN calendars = {}

BeginPass(p) ==
    /\ pass' = [pass EXCEPT ![p] = IF Raises THEN IdlePass ELSE StartedPass]
    /\ quiet' = IF Raises THEN quiet ELSE QuietStart(p)

\* service.async_get_all_events: the resources of the calendar, in server order
FetchedEvents(c) ==
    LET us == SelectSeq(UidOrder, LAMBDA u : <<c, u>> \in DOMAIN remote)
    IN  [i \in 1..Len(us) |-> [href |-> us[i], data |-> remote[<<c, us[i]>>]]]

NextCalendar(P) ==
    [P EXCEPT !.cals = Tail(@), !.dav_events = <<>>, !.seen_uids = {}, !.fetch = <<>>,
              !.fetch_error = FALSE,
              !.pc = IF Tail(P.cals) = <<>> THEN "commit" ELSE "fetch"]

\* variant: a calendar that cannot be opened ends the loop over the calendars
AbortPass(P, c) ==
    [P EXCEPT !.cals = <<>>, !.dav_events = <<>>, !.seen_uids = {}, !.fetch = <<>>,
              !.pc = "commit", !.failed = @ \cup {c}]

\* do_sync lines 44-45 and 156-158: continue with the next calendar
SkipCalendar(P, c) == [NextCalendar(P) EXCEPT !.failed = @ \cup {c}]

\* do_sync lines 41-51.  "skip": get_calendar_by_url gave None or raised
\* (continue at line 45 / except at line 156), as it does on every call when
\* the server rejects the credentials; "error": get_all_events
\* swallowed a transport error and returned [] (caldav_service.py 87-93).
SyncFetch(p) ==
    /\ pass[p].pc = "fetch"
    /\ \E o \in (IF revoked THEN {"skip"}
                ELSE IF MayFail THEN {"ok", "error", "skip"} ELSE {"ok"}) :
         LET P == pass[p]
             c == Head(P.cals)
         IN  /\ Count(o)
             /\ CASE o = "skip" ->
                    /\ pass' = [pass EXCEPT ![p] = SkipCalendar(P, c)]
                    /\ Disturb
               [] o = "error" ->
                    /\ pass' = [pass EXCEPT ![p] = [P EXCEPT !.pc = "items", !.dav_events = <<>>,
                                                             !.fetch_error = TRUE,
                                                             !.seen_uids = {}]]
                    /\ Disturb
               [] OTHER ->
                    /\ pass' = [pass EXCEPT ![p] = [P EXCEPT !.pc = "items",
                                                             !.dav_events = FetchedEvents(c),
                                                             !.fetch = FetchedEvents(c),
                                                             !.fetches = (c :> FetchedEvents(c)) @@ @,
                                                             !.seen_uids = {},
                                                             !.fetched = @ + Len(FetchedEvents(c))]]
                    /\ Calm
    /\ UNCHANGED <<revoked, loop_tasks, app, credentials, caldav_service, calendars, events, remote, sync_task,
                   sync_in_progress, last_sync_time, now, req, tombstones,
                   db_lock>>

\* the session has changes it has not flushed or committed
Unflushed(P) ==
    \/ P.cal_ts # <<>>
    \/ \E k \in DOMAIN P.sess : P.sess[k].op # "loaded" \/ P.sess[k].obj # P.sess[k].orig

\* autoflush before a query of pass p: the changes made so far are written
\* under the write lock, which the session then holds
Autoflush(p) ==
    IF Unflushed(pass[p])
    THEN db_lock \in {None, p} /\ db_lock' = p
    ELSE UNCHANGED db_lock

\* what select(Event).where(uid, calendar_id) yields in the session of pass p
SessionHas(p, k) ==
    IF k \in DOMAIN pass[p].sess THEN pass[p].sess[k].op # "delete" ELSE k \in DOMAIN events
SessionRow(p, k) ==
    IF k \in DOMAIN pass[p].sess THEN pass[p].sess[k].obj ELSE events[k]

\* CalDAVService.update_event: event_by_url(href) must find the resource
UpdateOutcomes(rk) ==
    IF revoked THEN {"fail"}
    ELSE IF rk \notin DOMAIN remote THEN {"gone"}
    ELSE IF MayFail THEN {"ok", "fail", "lost"} ELSE {"ok"}

Loaded(orig, obj, n) == [op |-> "loaded", orig |-> orig, obj |-> obj, pushes |-> n]

\* variant: only pending_update counts as a pending local change
OnlyPendingUpdate(existing) == existing.sync_status = "pending_update"

\* do_sync line 78
HasPendingChanges(existing) == existing.sync_status \in Pending

\* do_sync lines 84-95: the push of a record with pending local changes
PushNeeded(existing) == existing.sync_status = "pending_update" /\ existing.href # None

\* do_sync lines 97-111: remote wins
Overwritten(existing, parsed, dav_event) ==
    [existing EXCEPT !.summary = parsed.summary,
                     !.description = parsed.description,
                     !.start_dt = parsed.start_dt,
                     !.end_dt = parsed.end_dt,
                     !.all_day = parsed.all_day,
                     !.rrule = parsed.rrule,
                     !.exdate = parsed.exdate,
                     !.icalendar_data = dav_event.data,
                     !.href = dav_event.href,
                     !.sync_status = "synced"]

\* variant: a remote item absent locally is stored as a pending record
NewEventPending(parsed, dav_event) ==
    Event(dav_event.href, parsed.summary, parsed.description, parsed.start_dt, parsed.end_dt,
          parsed.all_day, parsed.rrule, parsed.exdate, parsed.sequence, dav_event.data,
          "pending_create")

\* do_sync lines 113-134
NewEvent(parsed, dav_event) ==
    Event(dav_event.href, parsed.summary, parsed.description, parsed.start_dt, parsed.end_dt,
          parsed.all_day, parsed.rrule, parsed.exdate, parsed.sequence, dav_event.data,
          "synced")

\* variant: the local record is looked up by uid alone
IdentityByUid(p, c, uid) ==
    LET found == SelectSeq(CalOrder, LAMBDA d : SessionHas(p, <<d, uid>>))
    IN  IF found # <<>> THEN <<Head(found), uid>> ELSE <<c, uid>>

\* do_sync lines 67-74: Event.uid == uid, Event.calendar_id == calendar.id
Identity(p, c, uid) == <<c, uid>>

\* do_sync lines 53-140: one remote item
SyncItem(p) ==
    /\ pass[p].pc = "items"
    /\ pass[p].dav_events # <<>>
    /\ Autoflush(p)
    /\ LET P == pass[p]
           c == Head(P.cals)
           dav_event == Head(P.dav_events)
           parsed == parse_icalendar(dav_event.data)
           k == Identity(p, c, parsed.uid)
           Done(entry) == [P EXCEPT !.dav_events = Tail(@),
                                    !.seen_uids = @ \cup {parsed.uid},
                                    !.sess = (k :> entry) @@ @,
                                    !.events_updated = @ + 1]
       IN  IF parsed.res # "ok" \/ parsed.uid = ""
           THEN /\ pass' = [pass EXCEPT ![p].dav_events = Tail(@), ![p].unparsed = @ + 1]
                /\ UNCHANGED <<revoked, loop_tasks, remote, envEvents>>
                /\ Calm
           ELSE IF ~SessionHas(p, k)
           THEN /\ pass' = [pass EXCEPT ![p] =
                              Done([op |-> "insert", orig |-> NewEvent(parsed, dav_event),
                                    obj |-> NewEvent(parsed, dav_event), pushes |-> 0])]
                /\ UNCHANGED <<revoked, loop_tasks, remote, envEvents>>
                /\ Calm
           ELSE LET existing == SessionRow(p, k) IN
                IF HasPendingChanges(existing)
                THEN IF PushNeeded(existing)
                     THEN \E o \in UpdateOutcomes(<<c, existing.href>>) :
                            /\ Count(o)
                            /\ remote' = IF o \in {"ok", "lost"}
                                         THEN [remote EXCEPT ![<<c, existing.href>>] =
                                                                existing.icalendar_data]
                                         ELSE remote
                            /\ pass' = [pass EXCEPT ![p] =
                                          Done(Loaded(existing,
                                                      IF o = "ok"
                                                      THEN [existing EXCEPT !.sync_status = "synced"]
                                                      ELSE existing, 1))]
                            /\ IF o = "ok" THEN Calm ELSE Disturb
                     ELSE /\ pass' = [pass EXCEPT ![p] = Done(Loaded(existing, existing, 0))]
                          /\ UNCHANGED <<revoked, loop_tasks, remote, envEvents>>
                          /\ Calm
                ELSE /\ pass' = [pass EXCEPT ![p] =
                                   Done(Loaded(existing, Overwritten(existing, parsed, dav_event), 0))]
                     /\ UNCHANGED <<revoked, loop_tasks, remote, envEvents>>
                     /\ Calm
    /\ UNCHANGED <<revoked, loop_tasks, app, credentials, caldav_service, calendars, events, sync_task,
                   sync_in_progress, last_sync_time, now, req, tombstones>>

\* variant: the sweep ignores the status of the record
SweepAbsent(local_event, uid, seen_uids) == uid \notin seen_uids

\* do_sync line 149: the deletion sweep's test
SweepDeletes(local_event, uid, seen_uids) ==
    uid \notin seen_uids /\ local_event.sync_status = "synced"

\* do_sync lines 142-154: deletion sweep, calendar.last_synced, calendars_synced
SyncSweep(p) ==
    /\ pass[p].pc = "items"
    /\ pass[p].dav_events = <<>>
    /\ Autoflush(p)
    /\ LET P == pass[p]
           c == Head(P.cals)
           local_events == {k \in Keys : k[1] = c /\ SessionHas(p, k)}
           doomed == {k \in local_events : SweepDeletes(SessionRow(p, k), k[2], P.seen_uids)}
           marks == [k \in doomed |-> [op |-> "delete", orig |-> SessionRow(p, k),
                                       obj |-> SessionRow(p, k), pushes |-> 0]]
       IN  pass' = [pass EXCEPT ![p] =
                      [NextCalendar(P) EXCEPT !.sess = marks @@ P.sess,
                                              !.cal_ts = (c :> now) @@ @,
                                              !.calendars_synced = @ + 1]]
    /\ Calm
    /\ UNCHANGED <<revoked, loop_tasks, app, credentials, caldav_service, calendars, events, remote, sync_task,
                   sync_in_progress, last_sync_time, now, req, tombstones,
                   envEvents>>

\* ---- db.commit() of a session (unit of work) ----
\* a row write carries the columns whose value differs from the loaded one
Flush(row, e) == [col \in Cols |-> IF e.obj[col] # e.orig[col] THEN e.obj[col] ELSE row[col]]

\* a DateTime column (models/event.py lines 23-24) cannot be written from a
\* python date: the flush raises
DateInDateTime(row) == row.start_dt.date \/ row.end_dt.date

\* IntegrityError (insert of an existing key), StaleDataError (update of a
\* vanished row) or a value the column type refuses
CommitFails(S) ==
    \E k \in DOMAIN S :
        \/ S[k].op = "insert" /\ k \in DOMAIN events
        \/ S[k].op = "loaded" /\ S[k].obj # S[k].orig /\ k \notin DOMAIN events
        \/ S[k].op # "delete" /\ S[k].obj # S[k].orig /\ DateInDateTime(S[k].obj)
        \/ S[k].op = "insert" /\ DateInDateTime(S[k].obj)

Committed(S) ==
    LET gone == {k \in DOMAIN S : S[k].op = "delete"}
        ins == {k \in DOMAIN S : S[k].op = "insert"}
        keep == (DOMAIN events \cup ins) \ gone
    IN  [k \in keep |-> IF k \in ins THEN S[k].obj
                        ELSE IF k \in DOMAIN S THEN Flush(events[k], S[k])
                        ELSE events[k]]

\* do_sync lines 162-167: the summary returned to the caller
SyncResponse(P) ==
    [success |-> TRUE, calendars_synced |-> P.calendars_synced,
     events_updated |-> P.events_updated]

\* do_sync line 160; the session is closed when the call returns or raises
CommitPass(p) ==
    LET P == pass[p]
        ok == ~CommitFails(P.sess)
    IN  /\ Unflushed(P) => db_lock \in {None, p}
        /\ db_lock' = IF db_lock = p THEN None ELSE db_lock
        /\ events' = IF ok THEN Committed(P.sess) ELSE events
        /\ calendars' = IF ok
                        THEN [c \in DOMAIN calendars |->
                                IF c \in DOMAIN P.cal_ts THEN [last_synced |-> P.cal_ts[c]]
                                ELSE calendars[c]]
                        ELSE calendars
        /\ pass' = [pass EXCEPT ![p] = IdlePass]
        /\ quiet' = IF ok /\ quiet.slot = p THEN [n |-> 2, slot |-> ""] ELSE Dirty


\* ---- triggers: main.py lifespan, sync_scheduler.py, api/sync.py endpoint ----
Tick == now' = IF now < MaxPasses THEN now + 1 ELSE now

\* main.py lines 28-37 with try_auto_connect and the initial perform_sync.
\* async_verify_connection returns a (bool, str) tuple, so "not <tuple>" is
\* never true and the service is installed whenever credentials are stored.
LifespanStartup ==
    /\ app = "starting"
    /\ IF credentials
       THEN /\ caldav_service' = TRUE
            /\ app' = "initial_sync"
            /\ sync_in_progress' = TRUE
            /\ pass' = [pass EXCEPT !["sched"] = StartedPass]
            /\ quiet' = QuietStart("sched")
            /\ Tick
       ELSE /\ app' = "running"
            /\ UNCHANGED <<revoked, loop_tasks, caldav_service, sync_in_progress, pass, quiet, now>>
    /\ UNCHANGED <<revoked, loop_tasks, credentials, calendars, events, remote, sync_task, last_sync_time, req,
                   tombstones, envEvents, db_lock>>

\* _sync_loop lines 106-112 and perform_sync lines 70-89: sleep is over
PerformSync ==
    /\ app = "running"
    /\ sync_task = "sleeping"
    /\ caldav_service
    /\ ~sync_in_progress
    /\ sync_in_progress' = ~Raises
    /\ sync_task' = IF Raises THEN "sleeping" ELSE "syncing"
    /\ BeginPass("sched")
    /\ Tick
    /\ UNCHANGED <<revoked, loop_tasks, app, credentials, caldav_service, calendars, events, remote, last_sync_time,
                   req, tombstones, envEvents, db_lock>>

\* variant: no test of _sync_task
NeverRunning == FALSE

\* start_sync_scheduler lines 127-129
AlreadyRunning == sync_task # "None"

\* start_sync_scheduler lines 123-134: create_task(_sync_loop()), whose first
\* step is the sleep
start_sync_scheduler ==
    /\ sync_task' = IF AlreadyRunning THEN sync_task ELSE "sleeping"
    /\ loop_tasks' = IF AlreadyRunning THEN loop_tasks ELSE loop_tasks + 1

\* variant: the flag is cleared on the success path only
FlagKeptOnError(failed) == failed

\* perform_sync lines 93-99: except Exception, finally _sync_in_progress = False
FlagAfterPass(failed) == FALSE

\* perform_sync lines 89-99, then start_sync_scheduler (lifespan) or the loop sleeps again
PerformSyncDone ==
    /\ pass["sched"].pc = "commit"
    /\ CommitPass("sched")
    /\ last_sync_time' = IF CommitFails(pass["sched"].sess) THEN last_sync_time ELSE now
    /\ sync_in_progress' = FlagAfterPass(CommitFails(pass["sched"].sess))
    /\ IF app = "initial_sync" THEN start_sync_scheduler
       ELSE sync_task' = "sleeping" /\ UNCHANGED loop_tasks
    /\ app' = "running"
    /\ UNCHANGED <<revoked, credentials, caldav_service, remote, now, req, tombstones, envEvents>>

\* api/sync.py lines 170-179: the manual endpoint calls do_sync directly
sync_all_calendars ==
    /\ app = "running"
    /\ pass["manual"].pc = "idle"
    /\ BeginPass("manual")
    /\ Tick
    /\ UNCHANGED <<revoked, loop_tasks, app, credentials, caldav_service, calendars, events, remote, sync_task,
                   sync_in_progress, last_sync_time, req, tombstones,
                   envEvents, db_lock>>

sync_all_calendars_done ==
    /\ pass["manual"].pc = "commit"
    /\ CommitPass("manual")
    /\ UNCHANGED <<revoked, loop_tasks, app, credentials, caldav_service, remote, sync_task, sync_in_progress,
                   last_sync_time, now, req, tombstones, envEvents>>

\* api/auth.py lines 40-100 (the listing of the account's calendars succeeded);
\* a connect while connected offers the credentials in use
connect_to_fastmail ==
    /\ app = "running"
    /\ caldav_service => ~revoked
    /\ db_lock = None
    /\ envEvents < MaxEvents
    /\ envEvents' = envEvents + 1
    /\ caldav_service' = TRUE
    /\ credentials' = TRUE
    /\ revoked' = FALSE
    /\ calendars' = [c \in Calendars |->
                       IF c \in DOMAIN calendars THEN calendars[c] ELSE [last_synced |-> 0]]
    /\ start_sync_scheduler
    /\ Calm
    /\ UNCHANGED <<app, events, remote, sync_in_progress, last_sync_time, now, pass, req,
                   tombstones, db_lock>>

\* api/auth.py lines 40-57 when the server rejects the offered password:
\* async_verify_connection returns (False, message), a tuple, which "not"
\* never rejects; async_get_calendars then raises and the handler answers 500.
connect_to_fastmail_rejected ==
    /\ app = "running"
    /\ ~caldav_service
    /\ req.op = "idle"
    /\ req' = [op |-> "connect", pc |-> "return", key |-> IdleReq.key, orig |-> IdleReq.orig,
               obj |-> IdleReq.obj, attempt |-> FALSE, pushed |-> FALSE, status |-> 500]
    /\ Calm
    /\ UNCHANGED <<revoked, loop_tasks, app, credentials, caldav_service, calendars, events, remote,
                   sync_task, sync_in_progress, last_sync_time, now, pass, tombstones,
                   envEvents, db_lock>>

\* the HTTPException is sent
connect_to_fastmail_return ==
    /\ req.op = "connect"
    /\ req' = IdleReq
    /\ Calm
    /\ UNCHANGED <<revoked, loop_tasks, app, credentials, caldav_service, calendars, events, remote,
                   sync_task, sync_in_progress, last_sync_time, now, pass, tombstones,
                   envEvents, db_lock>>

\* variant: a cancelled pass leaves the flag as it is
FlagLeftSet == sync_in_progress
\* perform_sync lines 98-99: the finally clause runs when the pass is cancelled
FlagAfterCancel == IF sync_task = "syncing" THEN FALSE ELSE sync_in_progress

\* stop_sync_scheduler lines 137-148: the loop task is cancelled at its await
\* and awaited; the session of an abandoned pass is closed without commit.
stop_sync_scheduler ==
    /\ db_lock' = IF db_lock = "sched" THEN None ELSE db_lock
    /\ sync_task' = "None"
    /\ loop_tasks' = IF sync_task # "None" THEN loop_tasks - 1 ELSE loop_tasks
    /\ sync_in_progress' = FlagAfterCancel
    /\ pass' = IF sync_task = "syncing"
               THEN [pass EXCEPT !["sched"] = IdlePass]
               ELSE pass
    /\ quiet' = IF sync_task = "syncing" THEN Abandoned ELSE Dirty

\* api/auth.py lines 117-134
disconnect_from_fastmail ==
    /\ app = "running"
    /\ caldav_service
    /\ db_lock \in {None, "sched"}
    /\ stop_sync_scheduler
    /\ envEvents < MaxEvents
    /\ envEvents' = envEvents + 1
    /\ caldav_service' = FALSE
    /\ credentials' = FALSE
    /\ UNCHANGED <<revoked, app, calendars, events, remote, last_sync_time, now, req, tombstones>>

\* main.py lines 41-42: shutdown, once the server has drained its requests
LifespanShutdown ==
    /\ app = "running"
    /\ req.op = "idle"
    /\ pass["manual"].pc = "idle"
    /\ app' = "stopped"
    /\ stop_sync_scheduler
    /\ UNCHANGED <<revoked, credentials, caldav_service, calendars, events, remote,
                   last_sync_time, now, req, tombstones, envEvents>>

\* api/sync.py lines 182-185 with get_sync_status (sync_scheduler.py 27-33)
get_sync_status ==
    /\ app = "running"
    /\ req.op = "idle"
    /\ req' = [op |-> "status", pc |-> "return", key |-> IdleReq.key, orig |-> IdleReq.orig,
               obj |-> IdleReq.obj, attempt |-> FALSE, pushed |-> FALSE,
               last_sync |-> last_sync_time, sync_in_progress |-> sync_in_progress]
    /\ Calm
    /\ UNCHANGED <<revoked, loop_tasks, app, credentials, caldav_service, calendars, events, remote,
                   sync_task, sync_in_progress, last_sync_time, now, pass, tombstones,
                   envEvents, db_lock>>

\* the status is sent
get_sync_status_return ==
    /\ req.op = "status"
    /\ req' = IdleReq
    /\ Calm
    /\ UNCHANGED <<revoked, loop_tasks, app, credentials, caldav_service, calendars, events, remote,
                   sync_task, sync_in_progress, last_sync_time, now, pass, tombstones,
                   envEvents, db_lock>>

\* ---- local mutations: api/events.py ----
InFlight == {k \in Keys : \E p \in Slots :
                \/ k \in DOMAIN pass[p].sess
                \/ pass[p].cals # <<>> /\ \E i \in 1..Len(pass[p].dav_events) :
                        k = <<Head(pass[p].cals), pass[p].dav_events[i].href>>}
\* uuid4 never returns a uid that is in use
UsedUids == {k[2] : k \in DOMAIN events \cup DOMAIN remote \cup tombstones \cup InFlight
                               \cup (IF req.op = "create" THEN {req.key} ELSE {})}

CreateInputs == {EventCreate("a", None, 0, 1, FALSE, None)}

\* create_event lines 121-140: calendar lookup, uuid4, create_icalendar; the
\* push is issued when a service is installed
create_event_begin(inputs) ==
    /\ app = "running"
    /\ req.op = "idle"
    /\ envEvents < MaxEvents
    /\ \E k \in Keys, event \in inputs :
         LET c == k[1] u == k[2] IN
         /\ c \in DOMAIN calendars
         /\ u \notin UsedUids
         /\ req' = [op |-> "create", pc |-> IF caldav_service THEN "push" ELSE "commit",
                    key |-> <<c, u>>,
                    orig |-> db_event(event, u, None, "pending_create"),
                    obj |-> db_event(event, u, None, "pending_create"),
                    attempt |-> caldav_service, pushed |-> FALSE, draft |-> event]
    /\ envEvents' = envEvents + 1
    /\ Disturb
    /\ UNCHANGED <<revoked, loop_tasks, app, credentials, caldav_service, calendars, events, remote, sync_task,
                   sync_in_progress, last_sync_time, now, pass, tombstones,
                   db_lock>>

\* CalDAVService.create_event: the href, or None on any exception
CreateOutcomes == IF revoked THEN {"fail"} ELSE IF MayFail THEN {"ok", "fail", "lost"} ELSE {"ok"}

\* create_event line 140: async_create_event returns
create_event_push ==
    /\ req.op = "create"
    /\ req.pc = "push"
    /\ \E o \in CreateOutcomes :
         /\ Count(o)
         /\ remote' = IF o \in {"ok", "lost"}
                      THEN (req.key :> req.obj.icalendar_data) @@ remote ELSE remote
         /\ req' = [req EXCEPT !.pc = "commit", !.pushed = (o = "ok")]
    /\ Disturb
    /\ UNCHANGED <<revoked, loop_tasks, app, credentials, caldav_service, calendars, events, sync_task,
                   sync_in_progress, last_sync_time, now, pass, tombstones,
                   db_lock>>

\* create_event line 158
CreateStatus(href) == IF href # None THEN "synced" ELSE "pending_create"

\* create_event lines 143-159: the row that is added
NewRow(r) ==
    LET href == IF r.pushed THEN Href(r.key) ELSE None
    IN  [r.obj EXCEPT !.href = href, !.sync_status = CreateStatus(href)]

\* pass P has taken the fetch of calendar c and has not committed
Fetched(P, c) ==
    /\ P.pc # "idle"
    /\ \/ \A i \in 1..Len(P.cals) : P.cals[i] # c
       \/ P.pc = "items" /\ Head(P.cals) = c

\* history: a create request committed k while the pass held the fetch of
\* k's calendar
NoteCreate(P, k) ==
    IF Fetched(P, k[1]) THEN [P EXCEPT !.created = @ \cup {k}] ELSE P

\* create_event lines 161-163: add, commit (IntegrityError if the key exists)
create_event_commit ==
    /\ req.op = "create"
    /\ req.pc = "commit"
    /\ db_lock = None
    /\ UNCHANGED db_lock
    /\ events' = IF req.key \in DOMAIN events THEN events
                 ELSE (req.key :> NewRow(req)) @@ events
    /\ pass' = IF req.key \in DOMAIN events THEN pass
               ELSE [p \in Slots |-> NoteCreate(pass[p], req.key)]
    /\ req' = IdleReq
    /\ Disturb
    /\ UNCHANGED <<revoked, loop_tasks, app, credentials, caldav_service, calendars, remote, sync_task,
                   sync_in_progress, last_sync_time, now, tombstones, envEvents>>

Updates == {[NoUpdate EXCEPT !.summary = s] : s \in {None, "b"}}

\* update_event lines 216-241: the fields of the row follow the request
Patched(event, upd) ==
    [event EXCEPT !.summary = IF upd.summary # None THEN upd.summary ELSE @,
                  !.description = IF upd.description # None THEN upd.description ELSE @,
                  !.start_dt = IF upd.start # -1 THEN DT(upd.start) ELSE @,
                  !.end_dt = IF upd.end # -1 THEN DT(upd.end) ELSE @,
                  !.all_day = IF upd.all_day # None THEN upd.all_day = "True" ELSE @,
                  !.rrule = IF upd.rrule # None THEN upd.rrule ELSE @,
                  !.icalendar_data = update_icalendar(event.icalendar_data, upd),
                  !.sync_status = "pending_update"]

\* update_event lines 203-257: load, update_icalendar, fields, pending_update;
\* a push is due when a service is installed and the row has a handle.  The
\* handler does not suspend between the load and its first write (the flush
\* of line 248, or the commit when no push is due) unless the database is
\* locked: it takes the write lock at once when the lock is free.  When
\* update_icalendar raises (line 216) nothing has been written yet and the
\* handler ends with the exception.
update_event_begin(patches) ==
    /\ app = "running"
    /\ req.op = "idle"
    /\ envEvents < MaxEvents
    /\ \E k \in DOMAIN events, upd \in patches :
         LET attempt == caldav_service /\ events[k].href # None
             raises == PatchError(events[k].icalendar_data, upd)
         IN
         /\ events[k].icalendar_data.sequence < MaxSeq
         /\ req' = [op |-> "update",
                    pc |-> IF raises THEN "raise"
                           ELSE IF ~attempt THEN "commit"
                           ELSE IF db_lock = None THEN "push" ELSE "flush",
                    key |-> k, orig |-> events[k],
                    obj |-> IF raises THEN events[k] ELSE Patched(events[k], upd),
                    attempt |-> attempt /\ ~raises, pushed |-> FALSE, update |-> upd]
         /\ db_lock' = IF db_lock = None /\ ~raises THEN "req" ELSE db_lock
    /\ envEvents' = envEvents + 1
    /\ Disturb
    /\ UNCHANGED <<revoked, loop_tasks, app, credentials, caldav_service, calendars, events, remote, sync_task,
                   sync_in_progress, last_sync_time, now, pass, tombstones>>

\* update_event line 216 raised: the request session is closed (get_db)
update_event_raise ==
    /\ req.op = "update"
    /\ req.pc = "raise"
    /\ req' = IdleReq
    /\ Calm
    /\ UNCHANGED <<revoked, loop_tasks, app, credentials, caldav_service, calendars, events, remote, sync_task,
                   sync_in_progress, last_sync_time, now, pass, tombstones, envEvents,
                   db_lock>>

\* update_event lines 248-258, after a wait for the lock: the query for the
\* calendar flushes the patched row (StaleDataError if the row has vanished);
\* then the push is issued
update_event_flush ==
    /\ req.op = "update"
    /\ req.pc = "flush"
    /\ db_lock = None
    /\ IF req.key \in DOMAIN events
       THEN req' = [req EXCEPT !.pc = "push"] /\ db_lock' = "req"
       ELSE req' = IdleReq /\ UNCHANGED db_lock
    /\ Disturb
    /\ UNCHANGED <<revoked, loop_tasks, app, credentials, caldav_service, calendars, events, remote, sync_task,
                   sync_in_progress, last_sync_time, now, pass, tombstones, envEvents>>

\* update_event lines 258-263: async_update_event returns
update_event_push ==
    /\ req.op = "update"
    /\ req.pc = "push"
    /\ \E o \in UpdateOutcomes(<<req.key[1], req.orig.href>>) :
         /\ Count(o)
         /\ remote' = IF o \in {"ok", "lost"}
                      THEN [remote EXCEPT ![<<req.key[1], req.orig.href>>] =
                                             req.obj.icalendar_data]
                      ELSE remote
         /\ req' = [req EXCEPT !.pc = "commit", !.pushed = (o = "ok")]
    /\ Disturb
    /\ UNCHANGED <<revoked, loop_tasks, app, credentials, caldav_service, calendars, events, sync_task,
                   sync_in_progress, last_sync_time, now, pass, tombstones,
                   db_lock>>

\* update_event lines 241 and 263: the status the handler leaves on its object
UpdateStatus(pushed) == IF pushed THEN "synced" ELSE "pending_update"

\* history: the text an update request committed for k while the pass held
\* the fetch of k's calendar
NoteEdit(P, k, text) ==
    IF Fetched(P, k[1]) THEN [P EXCEPT !.edited = (k :> text) @@ @] ELSE P

\* update_event lines 263-275: the row as patched (flushed by the query of
\* line 248 or now), then the status after the push; commit.  StaleDataError
\* if the row has vanished
update_event_commit ==
    /\ req.op = "update"
    /\ req.pc = "commit"
    /\ db_lock \in {None, "req"}
    /\ db_lock' = None
    /\ LET k == req.key
           event == [req.obj EXCEPT !.sync_status = UpdateStatus(req.pushed)]
       IN  events' = IF k \notin DOMAIN events THEN events
                     ELSE [events EXCEPT ![k] =
                             Flush(Flush(@, [orig |-> req.orig, obj |-> req.obj]),
                                   [orig |-> req.obj, obj |-> event])]
    /\ pass' = IF req.key \in DOMAIN events
               THEN [p \in Slots |-> NoteEdit(pass[p], req.key, req.obj.icalendar_data)]
               ELSE pass
    /\ req' = IdleReq
    /\ Disturb
    /\ UNCHANGED <<revoked, loop_tasks, app, credentials, caldav_service, calendars, remote, sync_task,
                   sync_in_progress, last_sync_time, now, tombstones, envEvents>>

\* delete_event lines 297-306: the query parameters delete_mode (default ALL)
\* and occurrence_date (default None, written -1)
DeleteRequest(mode, date) == [delete_mode |-> mode, occurrence_date |-> date]
Deletes == {DeleteRequest("all", -1)}
RichDeletes ==
    {DeleteRequest("all", -1), DeleteRequest("single", 0),
     DeleteRequest("this_and_future", 2)}

\* delete_event lines 316-336: load; the remote delete is issued when a
\* service is installed and the row has a handle
delete_event_begin(requests) ==
    /\ app = "running"
    /\ req.op = "idle"
    /\ envEvents < MaxEvents
    /\ \E k \in DOMAIN events : \E q \in requests :
         LET attempt == caldav_service /\ events[k].href # None IN
         req' = [op |-> "delete", pc |-> IF attempt THEN "push" ELSE "commit",
                 key |-> k, orig |-> events[k], obj |-> events[k],
                 attempt |-> attempt, pushed |-> FALSE,
                 delete_mode |-> q.delete_mode, occurrence_date |-> q.occurrence_date]
    /\ envEvents' = envEvents + 1
    /\ Disturb
    /\ UNCHANGED <<revoked, loop_tasks, app, credentials, caldav_service, calendars, events, remote, sync_task,
                   sync_in_progress, last_sync_time, now, pass, tombstones,
                   db_lock>>

\* delete_event line 337: async_delete_event returns
delete_event_push ==
    /\ req.op = "delete"
    /\ req.pc = "push"
    /\ \E o \in UpdateOutcomes(<<req.key[1], req.orig.href>>) :
         /\ Count(o)
         /\ remote' = IF o \in {"ok", "lost"}
                      THEN Without(remote, <<req.key[1], req.orig.href>>) ELSE remote
         /\ req' = [req EXCEPT !.pc = "commit", !.pushed = (o = "ok")]
    /\ Disturb
    /\ UNCHANGED <<revoked, loop_tasks, app, credentials, caldav_service, calendars, events, sync_task,
                   sync_in_progress, last_sync_time, now, pass, tombstones,
                   db_lock>>

\* delete_event lines 339-343: the row is deleted whatever the remote delete
\* returned
delete_event_commit ==
    /\ req.op = "delete"
    /\ req.pc = "commit"
    /\ db_lock = None
    /\ UNCHANGED db_lock
    /\ events' = IF req.key \in DOMAIN events THEN Without(events, req.key) ELSE events
    /\ tombstones' = IF ~req.pushed /\ req.orig.href # None /\ req.key \in DOMAIN remote
                     THEN tombstones \cup {req.key} ELSE tombstones
    /\ req' = IdleReq
    /\ Disturb
    /\ UNCHANGED <<revoked, loop_tasks, app, credentials, caldav_service, calendars, remote, sync_task,
                   sync_in_progress, last_sync_time, now, pass, envEvents>>

\* ---- listing: api/events.py list_events, services/recurrence_service.py ----
KeyOrder == <<<<"c1", "u1">>, <<"c1", "u3">>, <<"c2", "u2">>, <<"c2", "u3">>>>
Ascending(S) == [i \in 1..Cardinality(S) |-> CHOOSE x \in S : Cardinality({y \in S : y < x}) = i - 1]

\* recurring_ical_events.of(cal).between(start, end), line 49: the starts of
\* the occurrences the text defines (DTSTART, RRULE, RDATE without EXDATE)
\* that overlap the window
Duration(t) == IF t.dtend # NoTime THEN t.dtend.v - t.dtstart.v
               ELSE IF t.duration # -1 THEN t.duration
               ELSE IF t.dtstart.date THEN Day ELSE 0
\* variant: the rule is not evaluated, the series is its first event
OnlyMaster(t) == {t.dtstart.v}
\* DTSTART is the first occurrence of a rule, and the only one under COUNT=1
Occurrences(t) ==
    ({t.dtstart.v} \cup {t.rdate} \cup
     (IF t.rrule = Daily THEN {t.dtstart.v + i * Day : i \in 0..MaxTime} ELSE {}))
      \ {-1, t.exdate}
Between(t, start, end) ==
    {o \in Occurrences(t) :
        /\ o < end
        /\ IF Duration(t) > 0 THEN o + Duration(t) > start ELSE o >= start}
EvaluationFails(t) == t.rrule = Unevaluable

ExpandedEventResponse(uid, start, end, is_recurring, master_uid) ==
    [uid |-> uid, start |-> start, end |-> end, is_recurring |-> is_recurring,
     master_uid |-> master_uid]

\* lines 51-81: one instance per occurrence, times from the occurrence
Instances(uid, t, start, end) ==
    LET os == Ascending(Between(t, start, end))
    IN  [i \in 1..Len(os) |->
           ExpandedEventResponse(uid, os[i], os[i] + Duration(t), TRUE, uid)]

\* variant: an event that cannot be evaluated is dropped
NoFallback(uid, event) == <<>>
\* lines 82-99: the original event in place of its instances
Fallback(uid, event) ==
    <<ExpandedEventResponse(uid, event.start_dt.v, event.end_dt.v, TRUE, uid)>>

\* lines 41-116 for one event
ExpandOne(uid, event, start, end) ==
    IF event.rrule \notin {None, ""}
    THEN IF EvaluationFails(event.icalendar_data)
         THEN Fallback(uid, event)
         ELSE Instances(uid, event.icalendar_data, start, end)
    ELSE <<ExpandedEventResponse(uid, event.start_dt.v, event.end_dt.v, FALSE, None)>>

\* variant: the instances in the order of the events
Unsorted(seq) == seq
\* line 119: list.sort(key=start), a stable sort
RECURSIVE Insert(_, _)
Insert(e, seq) ==
    IF seq = <<>> THEN <<e>>
    ELSE IF seq[Len(seq)].start <= e.start THEN Append(seq, e)
    ELSE Append(Insert(e, SubSeq(seq, 1, Len(seq) - 1)), seq[Len(seq)])
RECURSIVE SortByStart(_)
SortByStart(seq) ==
    IF seq = <<>> THEN <<>>
    ELSE Insert(seq[Len(seq)], SortByStart(SubSeq(seq, 1, Len(seq) - 1)))

\* expand_recurring_events lines 24-121; keys are the events in query order
RECURSIVE Expanded(_, _, _, _)
Expanded(keys, rows, start, end) ==
    IF keys = <<>> THEN <<>>
    ELSE ExpandOne(Head(keys)[2], rows[Head(keys)], start, end)
           \o Expanded(Tail(keys), rows, start, end)
expand_recurring_events(keys, rows, start, end) ==
    SortByStart(Expanded(keys, rows, start, end))
\* line 84: what the call prints
Printed(keys, rows) ==
    {keys[i][2] : i \in {j \in 1..Len(keys) :
                            /\ rows[keys[j]].rrule \notin {None, ""}
                            /\ EvaluationFails(rows[keys[j]].icalendar_data)}}

\* list_events lines 60-68: the rows the query selects
Selected(event, start, end) ==
    /\ event.start_dt.v <= end
    /\ event.rrule # None \/ event.end_dt.v >= start
Query(start, end) ==
    SelectSeq(KeyOrder, LAMBDA k : k \in DOMAIN events /\ Selected(events[k], start, end))

\* list_events lines 36-76
list_events ==
    /\ app = "running"
    /\ req.op = "idle"
    /\ \E start \in Instants, end \in Instants :
         /\ start <= end
         /\ req' = [op |-> "list", pc |-> "return", key |-> IdleReq.key,
                    orig |-> IdleReq.orig, obj |-> IdleReq.obj, attempt |-> FALSE,
                    pushed |-> FALSE, start |-> start, end |-> end,
                    events |-> expand_recurring_events(Query(start, end), events, start, end),
                    printed |-> Printed(Query(start, end), events)]
    /\ Calm
    /\ UNCHANGED <<revoked, loop_tasks, app, credentials, caldav_service, calendars, events, remote, sync_task,
                   sync_in_progress, last_sync_time, now, pass, tombstones, envEvents,
                   db_lock>>

\* the EventListResponse is sent
list_events_return ==
    /\ req.op = "list"
    /\ req' = IdleReq
    /\ Calm
    /\ UNCHANGED <<revoked, loop_tasks, app, credentials, caldav_service, calendars, events, remote, sync_task,
                   sync_in_progress, last_sync_time, now, pass, tombstones, envEvents,
                   db_lock>>

\* variant: a read that marks the record it returns as synced
get_event_marking ==
    /\ app = "running"
    /\ req.op = "idle"
    /\ \E calendar_id \in Calendars, event_uid \in UIDs :
         LET k == <<calendar_id, event_uid>>
             found == k \in DOMAIN events
         IN  /\ req' = [op |-> "get", pc |-> "return", key |-> k, orig |-> IdleReq.orig,
                        obj |-> IF found THEN events[k] ELSE IdleReq.obj,
                        attempt |-> FALSE, pushed |-> FALSE,
                        status |-> IF found THEN 200 ELSE 404]
             /\ events' = IF found THEN [events EXCEPT ![k].sync_status = "synced"] ELSE events
    /\ Calm
    /\ UNCHANGED <<revoked, loop_tasks, app, credentials, caldav_service, calendars, remote, sync_task,
                   sync_in_progress, last_sync_time, now, pass, tombstones, envEvents,
                   db_lock>>

\* get_event lines 79-111: the row, or 404
get_event ==
    /\ app = "running"
    /\ req.op = "idle"
    /\ \E calendar_id \in Calendars, event_uid \in UIDs :
         LET k == <<calendar_id, event_uid>>
             found == k \in DOMAIN events
         IN  /\ req' = [op |-> "get", pc |-> "return", key |-> k, orig |-> IdleReq.orig,
                        obj |-> IF found THEN events[k] ELSE IdleReq.obj,
                        attempt |-> FALSE, pushed |-> FALSE,
                        status |-> IF found THEN 200 ELSE 404]
             /\ events' = events
    /\ Calm
    /\ UNCHANGED <<revoked, loop_tasks, app, credentials, caldav_service, calendars, remote, sync_task,
                   sync_in_progress, last_sync_time, now, pass, tombstones, envEvents,
                   db_lock>>

\* the EventResponse or the HTTPException is sent
get_event_return ==
    /\ req.op = "get"
    /\ req' = IdleReq
    /\ Calm
    /\ UNCHANGED <<revoked, loop_tasks, app, credentials, caldav_service, calendars, events, remote,
                   sync_task, sync_in_progress, last_sync_time, now, pass, tombstones,
                   envEvents, db_lock>>

\* ---- the account as changed by other clients of the server ----
ForeignTexts(k) ==
    {VEvent(k[2], "b", 0), NoVEvent}

RemotePut(texts) ==
    /\ envEvents < MaxEvents
    /\ \E k \in Keys : \E t \in texts[k] :
         /\ k \in DOMAIN remote \/ k[2] \notin UsedUids
         /\ k \in DOMAIN remote => remote[k] # t
         /\ remote' = (k :> t) @@ remote
    /\ envEvents' = envEvents + 1
    /\ Disturb
    /\ UNCHANGED <<revoked, loop_tasks, app, credentials, caldav_service, calendars, events, sync_task,
                   sync_in_progress, last_sync_time, now, pass, req,
                   tombstones, db_lock>>

RemoteDelete ==
    /\ envEvents < MaxEvents
    /\ \E k \in DOMAIN remote : remote' = Without(remote, k)
    /\ envEvents' = envEvents + 1
    /\ Disturb
    /\ UNCHANGED <<revoked, loop_tasks, app, credentials, caldav_service, calendars, events, sync_task,
                   sync_in_progress, last_sync_time, now, pass, req,
                   tombstones, db_lock>>

Budget == now < MaxPasses

Next ==
    \/ LifespanStartup
    \/ Budget /\ PerformSync
    \/ PerformSyncDone
    \/ Budget /\ sync_all_calendars
    \/ sync_all_calendars_done
    \/ \E p \in Slots : SyncFetch(p)
    \/ \E p \in Slots : SyncItem(p)
    \/ \E p \in Slots : SyncSweep(p)
    \/ connect_to_fastmail
    \/ disconnect_from_fastmail
    \/ create_event_begin(CreateInputs)
    \/ create_event_push
    \/ create_event_commit
    \/ update_event_begin(Updates)
    \/ update_event_flush
    \/ update_event_push
    \/ update_event_commit
    \/ delete_event_begin(Deletes)
    \/ delete_event_push
    \/ delete_event_commit
    \/ RemotePut([k \in Keys |-> ForeignTexts(k)])
    \/ RemoteDelete

Spec == Init /\ [][Next]_vars

\* The system under its scheduler alone (no manual sync), with no bound on
\* the number of passes (the clock stops at MaxPasses): the loop task and the
\* pass it awaits are never starved by the event loop.
NextLive ==
    \/ LifespanStartup
    \/ PerformSync
    \/ PerformSyncDone
    \/ SyncFetch("sched")
    \/ SyncItem("sched")
    \/ SyncSweep("sched")
    \/ connect_to_fastmail
    \/ disconnect_from_fastmail
    \/ create_event_begin(CreateInputs)
    \/ create_event_push
    \/ create_event_commit
    \/ update_event_begin(Updates)
    \/ update_event_flush
    \/ update_event_push
    \/ update_event_commit
    \/ delete_event_begin(Deletes)
    \/ delete_event_push
    \/ delete_event_commit
    \/ RemotePut([k \in Keys |-> ForeignTexts(k)])
    \/ RemoteDelete

SchedulerFairness ==
    /\ WF_vars(LifespanStartup)
    /\ WF_vars(PerformSync)
    /\ WF_vars(SyncFetch("sched"))
    /\ WF_vars(SyncItem("sched"))
    /\ WF_vars(SyncSweep("sched"))
    /\ WF_vars(PerformSyncDone)

SpecLive == Init /\ [][NextLive]_vars /\ SchedulerFairness

\* a request handler that has begun runs to its response: its remote call
\* returns and the event loop resumes it
RequestFairness ==
    /\ WF_vars(create_event_push)
    /\ WF_vars(create_event_commit)
    /\ WF_vars(update_event_flush)
    /\ WF_vars(update_event_push)
    /\ WF_vars(update_event_commit)
    /\ WF_vars(delete_event_push)
    /\ WF_vars(delete_event_commit)

SpecFair == Init /\ [][NextLive]_vars /\ SchedulerFairness /\ RequestFairness

\* ---- the data path: the same handlers and the scheduler's pass, one at a
\* time, with requests and foreign texts that use the whole codec ----
RichCreates ==
    {EventCreate("a", None, 1, en, ad, r) :
        en \in {2, 3}, ad \in BOOLEAN, r \in {None, "", DailyAlt, Unevaluable}}

AllUpdates ==
    {EventUpdate(s, d, st, en, ad, r) :
        s \in {None, "b"}, d \in {None, "", "d"}, st \in {-1} \cup Instants,
        en \in {-1} \cup Instants, ad \in {None, "True", "False"},
        r \in {None, "", Daily, Malformed}}
Named(upd) ==
    Cardinality({f \in DOMAIN upd : upd[f] # NoUpdate[f]})
RichUpdates == {upd \in AllUpdates : Named(upd) <= MaxPatchFields}

\* texts other clients store: a timed event without DTEND and SEQUENCE, an
\* all-day daily series with an excluded day, a timed event repeated by an
\* RDATE alone, a series whose rule cannot be evaluated, a timed and an
\* all-day event with DURATION, an all-day event with neither DTEND nor
\* DURATION, a series limited to one occurrence
RichForeign(k) ==
    { Text("vevent", k[2], "b", "d", DT(1), NoTime, None, -1, -1, -1),
      WithDuration(Text("vevent", k[2], "b", None, DT(1), NoTime, None, -1, -1, 0), 1),
      WithDuration(Text("vevent", k[2], "b", None, D(0), NoTime, None, -1, -1, 0), Day + 1),
      Text("vevent", k[2], "b", None, D(2), NoTime, None, -1, -1, 0),
      Text("vevent", k[2], "b", None, DT(0), DT(1), DailyOnce, -1, -1, 0),
      Text("vevent", k[2], "b", None, D(0), D(2), Daily, 2, -1, 1),
      Text("vevent", k[2], "b", None, DT(0), DT(1), None, -1, 2, 0),
      Text("vevent", k[2], "b", None, DT(0), DT(1), Unevaluable, -1, -1, 0) }

RichAccounts ==
    { (<<"c2", "u2">> :> Text("vevent", "u2", "a", "d", DT(1), NoTime, None, -1, -1, -1))
        @@ (<<"c2", "u3">> :> Text("vevent", "u3", "a", None, D(0), D(2), Daily, 2, -1, 0)),
      (<<"c2", "u2">> :> Text("vevent", "u2", "a", None, DT(0), DT(1), None, -1, 2, 0))
        @@ (<<"c2", "u3">> :> Text("vevent", "u3", "a", None, DT(0), DT(1), Unevaluable,
                                   -1, -1, 0)) }

InitCodec ==
    /\ app = "starting"
    /\ credentials \in BOOLEAN
    /\ revoked = FALSE
    /\ caldav_service = FALSE
    /\ calendars = IF credentials THEN [c \in Calendars |-> [last_synced |-> 0]] ELSE <<>>
    /\ events = <<>>
    /\ remote \in RichAccounts
    /\ sync_task = "None"
    /\ loop_tasks = 0
    /\ sync_in_progress = FALSE
    /\ last_sync_time = 0
    /\ now = 0
    /\ pass = [p \in Slots |-> IdlePass]
    /\ req = IdleReq
    /\ db_lock = None
    /\ envEvents = 0
    /\ quiet = Dirty
    /\ tombstones = {}

\* no request and no pass is in progress
Quiescent == req.op = "idle" /\ \A p \in Slots : pass[p].pc = "idle"

NextCodec ==
    \/ LifespanStartup
    \/ Quiescent /\ Budget /\ PerformSync
    \/ PerformSyncDone
    \/ SyncFetch("sched")
    \/ SyncItem("sched")
    \/ SyncSweep("sched")
    \/ Quiescent /\ connect_to_fastmail
    \/ Quiescent /\ create_event_begin(RichCreates)
    \/ create_event_push
    \/ create_event_commit
    \/ Quiescent /\ update_event_begin(RichUpdates)
    \/ update_event_raise
    \/ update_event_push
    \/ update_event_commit
    \/ Quiescent /\ delete_event_begin(RichDeletes)
    \/ delete_event_push
    \/ delete_event_commit
    \/ Quiescent /\ RemotePut([k \in Keys |-> RichForeign(k)])
    \/ Quiescent /\ list_events
    \/ list_events_return
    \/ Quiescent /\ get_event
    \/ get_event_return

SpecCodec == InitCodec /\ [][NextCodec]_vars

\* ---- an account in which another client has stored an event of one uid
\* in both calendars ----
SharedAccount == (<<"c1", "u3">> :> VEvent("u3", "b", 0)) @@ InitialAccount

InitShared ==
    /\ app = "starting"
    /\ credentials \in BOOLEAN
    /\ revoked = FALSE
    /\ caldav_service = FALSE
    /\ calendars = IF credentials THEN [c \in Calendars |-> [last_synced |-> 0]] ELSE <<>>
    /\ events = <<>>
    /\ remote = SharedAccount
    /\ sync_task = "None"
    /\ loop_tasks = 0
    /\ sync_in_progress = FALSE
    /\ last_sync_time = 0
    /\ now = 0
    /\ pass = [p \in Slots |-> IdlePass]
    /\ req = IdleReq
    /\ db_lock = None
    /\ envEvents = 0
    /\ quiet = Dirty
    /\ tombstones = {}

SpecShared == InitShared /\ [][Next]_vars

\* ---- the control plane: startup with credentials the server accepts or
\* rejects, connect, disconnect, shutdown, the two triggers and the status ----
InitAuth ==
    /\ app = "starting"
    /\ credentials \in BOOLEAN
    /\ revoked \in (IF credentials THEN BOOLEAN ELSE {FALSE})
    /\ caldav_service = FALSE
    /\ calendars = IF credentials THEN [c \in Calendars |-> [last_synced |-> 0]] ELSE <<>>
    /\ \E s \in InitialStores : events = s.events /\ remote = s.remote
    /\ sync_task = "None"
    /\ loop_tasks = 0
    /\ sync_in_progress = FALSE
    /\ last_sync_time = 0
    /\ now = 0
    /\ pass = [p \in Slots |-> IdlePass]
    /\ req = IdleReq
    /\ db_lock = None
    /\ envEvents = 0
    /\ quiet = Dirty
    /\ tombstones = {}

NextAuth ==
    \/ LifespanStartup
    \/ Budget /\ PerformSync
    \/ PerformSyncDone
    \/ Budget /\ sync_all_calendars
    \/ sync_all_calendars_done
    \/ \E p \in Slots : SyncFetch(p)
    \/ \E p \in Slots : SyncItem(p)
    \/ \E p \in Slots : SyncSweep(p)
    \/ connect_to_fastmail
    \/ connect_to_fastmail_rejected
    \/ connect_to_fastmail_return
    \/ disconnect_from_fastmail
    \/ LifespanShutdown
    \/ get_sync_status
    \/ get_sync_status_return
    \/ RemotePut([k \in Keys |-> ForeignTexts(k)])
    \/ RemoteDelete

SpecAuth == InitAuth /\ [][NextAuth]_vars

\* ---- properties ----
Active(p) == pass[p].pc # "idle"

\* the step in which pass p runs its db.commit() (a cancelled pass does not)
Returns(p) ==
    /\ pass[p].pc = "commit"
    /\ pass'[p].pc = "idle"
    /\ caldav_service' = caldav_service
    /\ app' # "stopped"

\* the step in which pass p runs the deletion sweep of its current calendar
Sweeps(p) ==
    /\ pass[p].pc = "items"
    /\ pass[p].dav_events = <<>>
    /\ pass'[p].pc \in {"fetch", "commit"}

\* the uids of the items of the fetch at hand
FetchUids(P) ==
    {parse_icalendar(P.fetch[i].data).uid : i \in 1..Len(P.fetch)} \ {""}

\* the fetched text for key k in pass P, if any
FetchedTexts(P, k) ==
    {P.fetch[i].data : i \in {j \in 1..Len(P.fetch) : P.fetch[j].href = k[2]}}

\* a record the pass found with pending local changes
PendingEntry(e) == e.op = "loaded" /\ e.orig.sync_status \in Pending

\* C1: at most one reconcile pass is in progress at any time, whatever
\* triggered it.
C1_SingleFlight == Cardinality({p \in Slots : Active(p)}) <= 1

\* C2: a record that is pending_create or pending_update when the pass reaches
\* it (its uid is in the fetch) is never overwritten by remote data: in the
\* session of the pass its text, fields and handle stay as loaded, and the
\* commit of the pass leaves text, fields and handle of the stored record as
\* they were.
C2_PendingNotOverwritten ==
    [][\A p \in Slots :
         /\ \A k \in DOMAIN pass'[p].sess :
              PendingEntry(pass'[p].sess[k]) =>
                  \A col \in DataCols \cup {"href"} :
                      pass'[p].sess[k].obj[col] = pass'[p].sess[k].orig[col]
         /\ (Returns(p) /\ ~CommitFails(pass[p].sess)) =>
              \A k \in DOMAIN pass[p].sess \cap DOMAIN events :
                  PendingEntry(pass[p].sess[k]) =>
                      /\ k \in DOMAIN events'
                      /\ \A col \in DataCols \cup {"href"} : events'[k][col] = events[k][col]
      ]_vars

\* C2 witness: a pass holds a pending record whose fetched copy differs from
\* the local text.
C2_Witness ==
    \E p \in Slots : \E k \in DOMAIN pass[p].sess :
        /\ PendingEntry(pass[p].sess[k])
        /\ \E t \in FetchedTexts(pass[p], k) : t # pass[p].sess[k].orig.icalendar_data

\* C3: for every record that is pending_update when the pass reaches it, the
\* pass attempts exactly one push.
C3_ExactlyOnePush ==
    \A p \in Slots : \A k \in DOMAIN pass[p].sess :
        (pass[p].sess[k].op = "loaded" /\ pass[p].sess[k].orig.sync_status = "pending_update")
            => pass[p].sess[k].pushes = 1

\* C4: the deletion sweep of a calendar marks for deletion every record of the
\* calendar that is synced and whose uid is not in the fetch, and no record
\* that is pending; the commit of the pass deletes the marked records.
C4_DeletionSweep ==
    [][\A p \in Slots :
         /\ Sweeps(p) =>
              \A k \in Keys :
                  (k[1] = Head(pass[p].cals) /\ SessionHas(p, k)) =>
                      LET row == SessionRow(p, k)
                          marked == /\ k \in DOMAIN pass'[p].sess
                                    /\ pass'[p].sess[k].op = "delete"
                      IN  /\ (row.sync_status = "synced" /\ k[2] \notin FetchUids(pass[p]))
                                => marked
                          /\ row.sync_status \in Pending \cup {"pending_delete"} => ~marked
         /\ (Returns(p) /\ ~CommitFails(pass[p].sess)) =>
              \A k \in DOMAIN pass[p].sess :
                  pass[p].sess[k].op = "delete" => k \notin DOMAIN events'
      ]_vars

\* C4 witness: a pass has marked a synced record that is absent from the fetch
\* and has kept a pending record that is absent from the fetch of its calendar.
C4_Witness ==
    \E p \in Slots :
        /\ \E k \in DOMAIN pass[p].sess : pass[p].sess[k].op = "delete"
        /\ \E k \in DOMAIN events :
             /\ events[k].sync_status \in Pending
             /\ k[1] \in DOMAIN pass[p].cal_ts
             /\ k \notin DOMAIN remote
             /\ k \notin DOMAIN pass[p].sess

\* the step in which the handler of a create or update commits and returns
CreateReturns ==
    req.op = "create" /\ req.pc = "commit" /\ req'.op = "idle" /\ req.key \notin DOMAIN events
UpdateReturns ==
    req.op = "update" /\ req.pc = "commit" /\ req'.op = "idle" /\ req.key \in DOMAIN events

\* C6: after a local create or update returns, the record is stored with the
\* new canonical text and fields; its status is synced (with the handle) if
\* and only if the push succeeded, and otherwise pending_create for a create
\* and pending_update for an update.
C6_StoredWhateverThePush ==
    [][/\ CreateReturns =>
            /\ req.key \in DOMAIN events'
            /\ events'[req.key] =
                 [req.obj EXCEPT !.href = IF req.pushed THEN Href(req.key) ELSE None,
                                 !.sync_status = IF req.pushed THEN "synced"
                                                 ELSE "pending_create"]
       /\ UpdateReturns =>
            /\ req.key \in DOMAIN events'
            /\ events'[req.key] =
                 [req.obj EXCEPT !.sync_status = IF req.pushed THEN "synced"
                                                 ELSE "pending_update"]
      ]_vars

\* C7: an event the user deleted while the remote delete failed or could not
\* be attempted is not brought back into the local store by a pass that
\* starts after the deletion.
C7_DeleteNotLost ==
    [][\A p \in Slots :
         (Returns(p) /\ ~CommitFails(pass[p].sess)) =>
             \A k \in pass[p].deleted_before : k \notin DOMAIN events'
      ]_vars

\* C8: a pass that follows a committed pass, with no remote change and no
\* local mutation since that pass began, changes no local record and reports
\* zero touched events.
C8_SecondPassIdle ==
    [][\A p \in Slots :
         (Returns(p) /\ ~CommitFails(pass[p].sess) /\ quiet.n = 3 /\ quiet.slot = p) =>
             /\ events' = events
             /\ SyncResponse(pass[p]).events_updated = 0
      ]_vars

\* C9: when k of the N fetched items cannot be parsed, the summary reports
\* N - k reconciled events and an unprocessed-item count of k, and the pass
\* reports success.
C9_UnparsedCounted ==
    [][\A p \in Slots :
         (Returns(p) /\ ~CommitFails(pass[p].sess) /\ pass[p].unparsed > 0) =>
             LET r == SyncResponse(pass[p]) IN
             /\ r.success
             /\ r.events_updated = pass[p].fetched - pass[p].unparsed
             /\ "unprocessed" \in DOMAIN r
             /\ r.unprocessed = pass[p].unparsed
      ]_vars

Settled == envEvents = MaxEvents

IsPending(k) == k \in DOMAIN events /\ events[k].sync_status \in Pending

\* C5: if from some point on the remote accepts every push and passes keep
\* being run, every record that is pending_create or pending_update
\* eventually becomes synced.
C5_PendingEventuallySynced ==
    (<>[]Settled /\ []<>(pass["sched"].pc = "commit"))
        => \A k \in Keys : [](IsPending(k) => <>(~IsPending(k)))

\* ---- properties of the data path ----
\* the step in which pass p handles the remote item at the head of its fetch
ItemStep(p) ==
    /\ pass[p].pc = "items"
    /\ pass[p].dav_events # <<>>
    /\ pass'[p].pc = "items"
    /\ pass'[p].dav_events = Tail(pass[p].dav_events)

\* C11: when a remote item matches a local record in state synced, the pass
\* leaves the record with the fetched text, with every structured field
\* (revision counter and remote handle included) equal to the value parsed
\* from that text, and with status synced.
C11_RemoteWins ==
    [][\A p \in Slots :
         ItemStep(p) =>
           LET dav_event == Head(pass[p].dav_events)
               parsed == parse_icalendar(dav_event.data)
               k == <<Head(pass[p].cals), parsed.uid>>
           IN  (/\ parsed.res = "ok"
                /\ SessionHas(p, k)
                /\ SessionRow(p, k).sync_status = "synced")
               => /\ pass'[p].sess[k].obj.icalendar_data = dav_event.data
                  /\ \A col \in DataCols \ {"icalendar_data"} :
                        pass'[p].sess[k].obj[col] = parsed[col]
                  /\ pass'[p].sess[k].obj.href = dav_event.href
                  /\ pass'[p].sess[k].obj.sync_status = "synced"
      ]_vars

\* the structured fields a local mutation writes
FieldCols == {"summary", "description", "start_dt", "end_dt", "all_day", "rrule", "sequence"}
Derivable(row) ==
    \A col \in FieldCols : row[col] = parse_icalendar(row.icalendar_data)[col]

\* C12: after a local create or update, every structured field of the record
\* equals the value parse derives from the record's stored canonical text.
C12_FieldsDerivable ==
    [][(CreateReturns \/ UpdateReturns) =>
          /\ req.key \in DOMAIN events'
          /\ Derivable(events'[req.key])
      ]_vars

\* the step in which update_event applies a patch (update_icalendar returns)
Patches ==
    /\ req.op = "idle"
    /\ req'.op = "update"
    /\ req'.pc # "raise"

\* C13: every update_icalendar call yields a text whose revision counter is
\* the previous counter plus 1, a missing counter counting as 0.
C13_RevisionPlusOne ==
    [][Patches =>
          parse_icalendar(req'.obj.icalendar_data).sequence
            = parse_icalendar(req'.orig.icalendar_data).sequence + 1
      ]_vars

\* a patch has been applied to a text that carries no revision counter
C13_Witness ==
    /\ req.op = "update"
    /\ req.pc # "raise"
    /\ req.orig.icalendar_data.sequence = -1
    /\ req.obj.icalendar_data.sequence = 1

\* the parsed field each field of a patch stands for
PatchedField ==
    [summary |-> "summary", description |-> "description", start |-> "start_dt",
     end |-> "end_dt", all_day |-> "all_day", rrule |-> "rrule"]

\* C14: parse(update_icalendar(text, patch)) has every field the patch does
\* not name (other than the revision counter) equal to the field of
\* parse(text).
C14_UnnamedFieldsKept ==
    [][Patches =>
          LET before == parse_icalendar(req'.orig.icalendar_data)
              after == parse_icalendar(req'.obj.icalendar_data)
          IN  /\ after.uid = before.uid
              /\ after.exdate = before.exdate
              /\ \A f \in DOMAIN PatchedField :
                    req'.update[f] = NoUpdate[f]
                      => after[PatchedField[f]] = before[PatchedField[f]]
      ]_vars

\* C15: when the start or the end of an all-day event is patched (and the
\* patch does not turn the event into a timed one), the patched text still
\* carries date-only values and parses as all-day.
C15_AllDaySurvives ==
    [][Patches =>
          LET before == req'.orig.icalendar_data
              after == req'.obj.icalendar_data
          IN  (/\ parse_icalendar(before).all_day
               /\ req'.update.start # -1 \/ req'.update.end # -1
               /\ req'.update.all_day # "False")
              => /\ after.dtstart.date
                 /\ after.dtend = NoTime \/ after.dtend.date
                 /\ parse_icalendar(after).all_day
      ]_vars

\* C16: a patch with a malformed recurrence rule is rejected before any
\* write: the update fails, the record stays as it was and no push is made.
C16_FailsClosed ==
    [][/\ (req.op = "idle" /\ req'.op = "update" /\ req'.update.rrule = Malformed)
          => /\ req'.pc = "raise"
             /\ ~req'.attempt
             /\ events' = events
             /\ remote' = remote
       /\ (req.op = "update" /\ req.pc = "raise")
          => /\ req'.op = "idle"
             /\ remote' = remote
             /\ req.key \in DOMAIN events'
             /\ events'[req.key] = req.orig
      ]_vars

\* an update whose patch carries a malformed rule has failed
C16_Witness ==
    /\ req.op = "update"
    /\ req.pc = "raise"
    /\ req.update.rrule = Malformed
    /\ events[req.key] = req.orig

\* a listing is answered in this step
Lists == req.op = "idle" /\ req'.op = "list"
\* the instances of one event in a response
Of(uid, response) == SelectSeq(response, LAMBDA e : e.uid = uid)
\* the event's text defines no recurrence
NonRecurring(event) ==
    /\ parse_icalendar(event.icalendar_data).rrule = None
    /\ event.icalendar_data.rdate = -1

\* C17: a non-recurring event is listed exactly once if [start, end) overlaps
\* [windowStart, windowEnd) and not at all otherwise.
C17_HalfOpenOverlap ==
    [][Lists =>
          \A k \in DOMAIN events :
            (/\ NonRecurring(events[k])
             /\ events[k].start_dt.v < events[k].end_dt.v
             /\ req'.start < req'.end)
            => Len(Of(k[2], req'.events)) =
                 IF /\ events[k].start_dt.v < req'.end
                    /\ events[k].end_dt.v > req'.start
                 THEN 1 ELSE 0
      ]_vars

\* C18: the instances of a response are in ascending order of their start.
C18_SortedByStart ==
    req.op = "list" =>
      \A i, j \in 1..Len(req.events) : i < j => req.events[i].start <= req.events[j].start

\* a response of recurring, non-recurring and fallback instances that the
\* order of the events alone would not have sorted
C18_Witness ==
    /\ req.op = "list"
    /\ Expanded(Query(req.start, req.end), events, req.start, req.end) # req.events
    /\ \E i, j, l \in 1..Len(req.events) :
         /\ ~req.events[i].is_recurring
         /\ req.events[j].is_recurring /\ req.events[j].uid \notin req.printed
         /\ req.events[l].is_recurring /\ req.events[l].uid \in req.printed

\* the selected events whose evaluation fails
Failing(start, end) ==
    {k \in DOMAIN events :
        /\ Selected(events[k], start, end)
        /\ events[k].rrule \notin {None, ""}
        /\ EvaluationFails(events[k].icalendar_data)}

\* C19: an event whose evaluation fails is listed as exactly one instance with
\* the stored start and end, tagged recurring with the master uid, the failure
\* is printed, and the other events of the call keep their instances.
C19_FallbackInstance ==
    [][Lists =>
          /\ \A k \in Failing(req'.start, req'.end) :
                /\ Of(k[2], req'.events)
                     = <<ExpandedEventResponse(k[2], events[k].start_dt.v,
                                               events[k].end_dt.v, TRUE, k[2])>>
                /\ k[2] \in req'.printed
          /\ \A k \in DOMAIN events \ Failing(req'.start, req'.end) :
                /\ k[2] \notin req'.printed
                /\ Of(k[2], req'.events)
                     = IF Selected(events[k], req'.start, req'.end)
                       THEN ExpandOne(k[2], events[k], req'.start, req'.end)
                       ELSE <<>>
      ]_vars

\* a response with the fallback instance of a failing event next to the
\* instances of another, recurring event
C19_Witness ==
    /\ req.op = "list"
    /\ req.printed # {}
    /\ \E i, j \in 1..Len(req.events) :
         /\ req.events[i].uid \in req.printed
         /\ req.events[j].uid \notin req.printed
         /\ req.events[j].is_recurring

\* the instance times a listing shows for one event
Shown(uid, event, start, end) ==
    IF Selected(event, start, end)
    THEN LET es == ExpandOne(uid, event, start, end)
         IN  {<<es[i].start, es[i].end>> : i \in 1..Len(es)}
    ELSE {}

\* C20: the instance times listed for an event are those of the record with
\* the same text whose rule field is the one parsed from the text.
C20_TextDecides ==
    [][Lists =>
          \A k \in DOMAIN events :
            LET shown == Of(k[2], req'.events)
                canon == [events[k] EXCEPT
                            !.rrule = parse_icalendar(events[k].icalendar_data).rrule]
            IN  {<<shown[i].start, shown[i].end>> : i \in 1..Len(shown)}
                  = Shown(k[2], canon, req'.start, req'.end)
      ]_vars

\* C22: when the server rejects the stored credentials, startup installs no
\* session, runs no initial sync and starts no scheduler; a connect with a
\* rejected password answers with an authentication error (401) and stores
\* neither session nor credentials.
C22_VerifiedBeforeInstalled ==
    [][/\ (app = "starting" /\ credentials /\ revoked /\ app' # "starting")
          => /\ ~caldav_service'
             /\ app' = "running"
             /\ pass' = pass
             /\ sync_task' = "None"
       /\ (req.op = "idle" /\ req'.op = "connect")
          => /\ req'.status = 401
             /\ ~caldav_service'
             /\ credentials' = credentials
      ]_vars

\* C23: the in-progress flag the status query returns is true exactly when a
\* reconcile pass is executing, whatever triggered it.
C23_FlagTracksPasses ==
    [][(req.op = "idle" /\ req'.op = "status")
          => (req'.sync_in_progress <=> \E p \in Slots : Active(p))
      ]_vars

\* C24: when a pass completes successfully, whatever triggered it, the
\* last-sync time becomes its completion time; no other step changes it and
\* it never decreases.
C24_LastSyncIsLastCompletion ==
    [][/\ \A p \in Slots :
            (Returns(p) /\ ~CommitFails(pass[p].sess)) => last_sync_time' = now
       /\ last_sync_time' # last_sync_time
            => \E p \in Slots : Returns(p) /\ ~CommitFails(pass[p].sess)
       /\ last_sync_time' >= last_sync_time
      ]_vars

\* the step in which stop_sync_scheduler runs (disconnect or shutdown)
StopReturns ==
    /\ app = "running"
    /\ app' = "stopped" \/ (caldav_service /\ ~caldav_service')

\* C25: when stop_sync_scheduler returns there is no periodic task, the
\* in-flight flag is false, the scheduler's pass is over and the step has
\* committed none of its changes; while there is no periodic task no
\* scheduler pass starts.
C25_GracefulStop ==
    [][/\ StopReturns
          => /\ sync_task' = "None"
             /\ ~sync_in_progress'
             /\ pass'["sched"] = IdlePass
             /\ db_lock' # "sched"
             /\ events' = events
             /\ calendars' = calendars
       /\ (app \in {"running", "stopped"} /\ sync_task = "None")
          => pass'["sched"] = pass["sched"]
      ]_vars

\* the scheduler was stopped while its pass was in flight
C25_Witness ==
    /\ quiet = Abandoned
    /\ sync_task = "None"
    /\ ~sync_in_progress
    /\ pass["sched"] = IdlePass

\* the records a pass has created, updated or deleted in its session
Touched(P) ==
    {k \in DOMAIN P.sess :
        \/ P.sess[k].op \in {"insert", "delete"}
        \/ P.sess[k].obj # P.sess[k].orig}

\* C26: the events count of the summary a pass returns is the number of
\* records the pass created, updated or deleted.
C26_CountsTouched ==
    [][\A p \in Slots :
         (Returns(p) /\ ~CommitFails(pass[p].sess)) =>
             SyncResponse(pass[p]).events_updated = Cardinality(Touched(pass[p]))
      ]_vars

\* the step in which the remote push of a create or an update is attempted
Pushes ==
    /\ req.op \in {"create", "update"}
    /\ req.pc = "push"
    /\ req'.pc # "push"

\* C27: when the push of a local create or update is attempted, the local
\* store already holds the record with the new text and a pending status.
C27_LocalFirst ==
    [][Pushes =>
          /\ req.key \in DOMAIN events
          /\ events[req.key].icalendar_data = req.obj.icalendar_data
          /\ events[req.key].sync_status \in Pending
      ]_vars

\* C28: parse takes the end from DTEND if present, else start plus DURATION
\* if present (a date plus a duration being the date the sum falls on), else
\* start plus one day for an all-day event and the start otherwise; the
\* event is all-day exactly when DTSTART is a date; a missing SEQUENCE reads
\* as 0.
C28_ParseDerivations ==
    [][\A p \in Slots : ItemStep(p) =>
          LET t == Head(pass[p].dav_events).data
              parsed == parse_icalendar(t)
          IN  parsed.res = "ok" =>
                /\ parsed.all_day = t.dtstart.date
                /\ parsed.start_dt.v = t.dtstart.v
                /\ parsed.sequence = IF t.sequence = -1 THEN 0 ELSE t.sequence
                /\ parsed.end_dt.v =
                     IF t.dtend # NoTime THEN t.dtend.v
                     ELSE IF t.duration # -1
                     THEN IF t.dtstart.date THEN D(t.dtstart.v + t.duration).v
                          ELSE t.dtstart.v + t.duration
                     ELSE IF parsed.all_day THEN t.dtstart.v + Day
                     ELSE t.dtstart.v
      ]_vars

\* a pass has stored an event whose end it took from DURATION and one whose
\* end is the default day of an all-day event
C28_Witness ==
    /\ \E k \in DOMAIN events :
         LET t == events[k].icalendar_data
         IN  /\ t.dtend = NoTime /\ t.duration # -1 /\ ~t.dtstart.date
             /\ events[k].end_dt.v = t.dtstart.v + t.duration
    /\ \E k \in DOMAIN events :
         LET t == events[k].icalendar_data
         IN  /\ t.dtend = NoTime /\ t.duration = -1 /\ t.dtstart.date
             /\ events[k].end_dt.v = t.dtstart.v + Day

\* the step in which create_event builds the text of its draft
Builds == req.op = "idle" /\ req'.op = "create"

\* C29: parse(build(draft, uid)) returns the uid, the draft's summary,
\* description, recurrence rule and all-day flag, the draft's start and end
\* (their dates for an all-day draft) and revision counter 0.
C29_BuildParseRoundTrip ==
    [][Builds =>
          LET draft == req'.draft
              parsed == parse_icalendar(req'.obj.icalendar_data)
          IN  /\ req'.obj.icalendar_data = create_icalendar(draft, req'.key[2])
              /\ parsed.res = "ok"
              /\ parsed.uid = req'.key[2]
              /\ parsed.summary = draft.summary
              /\ parsed.description = draft.description
              /\ parsed.rrule = draft.rrule
              /\ parsed.all_day = draft.all_day
              /\ parsed.start_dt.v = IF draft.all_day THEN D(draft.start).v ELSE draft.start
              /\ parsed.end_dt.v = IF draft.all_day THEN D(draft.end).v ELSE draft.end
              /\ parsed.sequence = 0
      ]_vars

\* a step of the read surface: list_events or get_event answers, or its
\* response is sent
Reads ==
    \/ req.op = "idle" /\ req'.op \in {"list", "get"}
    \/ req.op \in {"list", "get"}

\* C30: list_events and get_event leave every event record, every calendar
\* record, the scheduler state and the server's account as they were.
C30_ReadsChangeNothing ==
    [][Reads =>
          /\ events' = events
          /\ calendars' = calendars
          /\ remote' = remote
          /\ sync_task' = sync_task
          /\ sync_in_progress' = sync_in_progress
          /\ last_sync_time' = last_sync_time
          /\ caldav_service' = caldav_service
          /\ credentials' = credentials
          /\ pass' = pass
          /\ db_lock' = db_lock
      ]_vars

\* get_event has answered not-found while the store holds a pending record
C30_Witness ==
    /\ req.op = "get"
    /\ req.status = 404
    /\ \E k \in DOMAIN events : events[k].sync_status \in Pending

\* the occurrences of a daily rule, limited or not, that overlap the window
RuleOccurrences(t, start, end) ==
    LET limit == IF t.rrule = DailyOnce THEN 1 ELSE MaxTime + 1
        length == Duration(t)
    IN  {o \in {t.dtstart.v + i * Day : i \in 0..(limit - 1)} :
            /\ o < end
            /\ IF length > 0 THEN o + length > start ELSE o >= start}

DeletesSeries ==
    /\ delete_event_commit
    /\ req.orig.rrule \notin {None, ""}

\* C31: deleting a recurring event with mode SINGLE adds the occurrence to
\* the excluded dates and with mode THIS_AND_FUTURE ends the series; in both
\* modes the master record stays in the local store, and only mode ALL
\* deletes the series.
C31_DeleteModes ==
    [][DeletesSeries =>
          IF req.delete_mode = "all" THEN req.key \notin DOMAIN events'
          ELSE /\ req.key \in DOMAIN events'
               /\ req.delete_mode = "single" =>
                     events'[req.key].exdate = req.occurrence_date
      ]_vars

\* C32: a transport failure while fetching a calendar's events is isolated:
\* in that pass no local record of the calendar is deleted or modified, the
\* calendar's last-synced timestamp is not advanced and the calendar is not
\* counted as reconciled.
C32_FetchFailureIsolated ==
    [][\A p \in Slots : (Sweeps(p) /\ pass[p].fetch_error) =>
          /\ pass'[p].sess = pass[p].sess
          /\ pass'[p].cal_ts = pass[p].cal_ts
          /\ pass'[p].calendars_synced = pass[p].calendars_synced
      ]_vars

\* do_sync lines 54-65: the items of the fetch at hand that were skipped
\* because they did not parse, by handle
UnparsedHrefs(P) ==
    {P.fetch[i].href : i \in {j \in 1..Len(P.fetch) :
                                 LET parsed == parse_icalendar(P.fetch[j].data)
                                 IN  parsed.res # "ok" \/ parsed.uid = ""}}

\* C33: an item that fails to parse affects that item only: the synced
\* record stored from the same remote event in an earlier pass is not
\* deleted by the deletion sweep of the pass in which the item fails to parse.
C33_UnparsedKeepsRecord ==
    [][\A p \in Slots : Sweeps(p) =>
          \A k \in Keys :
             (/\ k[1] = Head(pass[p].cals)
              /\ SessionHas(p, k)
              /\ SessionRow(p, k).sync_status = "synced"
              /\ SessionRow(p, k).href \in UnparsedHrefs(pass[p]))
             => ~(k \in DOMAIN pass'[p].sess /\ pass'[p].sess[k].op = "delete")
      ]_vars

\* C34: a local update committed while a pass is in flight (after the pass
\* took its fetch, before it commits) is not lost: when the pass commits, a
\* record that holds the locally edited text keeps that text and its fields.
C34_MidPassEditKept ==
    [][\A p \in Slots : (Returns(p) /\ ~CommitFails(pass[p].sess)) =>
          \A k \in DOMAIN pass[p].edited :
             (k \in DOMAIN events /\ events[k].icalendar_data = pass[p].edited[k])
             => /\ k \in DOMAIN events'
                /\ \A col \in DataCols : events'[k][col] = events[k][col]
      ]_vars

\* C35: a record created locally while a pass is in flight, whose uid is
\* absent from the pass's fetch, is not deleted by that pass's deletion
\* sweep, whether its push succeeded (synced) or failed (pending_create).
C35_MidPassCreateKept ==
    [][\A p \in Slots : Sweeps(p) =>
          \A k \in pass[p].created :
             (/\ k[1] = Head(pass[p].cals)
              /\ k[2] \notin FetchUids(pass[p])
              /\ SessionHas(p, k))
             => ~(k \in DOMAIN pass'[p].sess /\ pass'[p].sess[k].op = "delete")
      ]_vars

\* do_sync lines 53-65: every item of the fetch parsed and gave a uid
AllParsed(fetch) ==
    \A i \in 1..Len(fetch) :
        LET parsed == parse_icalendar(fetch[i].data)
        IN  parsed.res = "ok" /\ parsed.uid # ""

\* the fetched text of uid
TextOf(fetch, uid) ==
    LET i == CHOOSE j \in 1..Len(fetch) : parse_icalendar(fetch[j].data).uid = uid
    IN  fetch[i].data

\* the local store holds, for calendar c, exactly the fetched events
Converged(store, c, fetch) ==
    /\ {k[2] : k \in {x \in DOMAIN store : x[1] = c}} =
           {parse_icalendar(fetch[i].data).uid : i \in 1..Len(fetch)}
    /\ \A k \in DOMAIN store : k[1] = c =>
           /\ store[k].sync_status = "synced"
           /\ store[k].icalendar_data = TextOf(fetch, k[2])

\* the calendars a committing pass reconciled from a fetch that succeeded and
\* parsed, with no pending record in the calendar
Reconciled(p) ==
    {c \in DOMAIN pass[p].fetches \cap DOMAIN pass[p].cal_ts :
        /\ AllParsed(pass[p].fetches[c])
        /\ \A k \in DOMAIN events : k[1] = c => events[k].sync_status \notin Pending}

Undisturbed(p) == quiet.n \in {1, 3} /\ quiet.slot = p

OthersKept(P, Q, c) ==
    \A k \in Keys : k[1] # c =>
        /\ k \in DOMAIN Q.sess <=> k \in DOMAIN P.sess
        /\ k \in DOMAIN P.sess => Q.sess[k] = P.sess[k]

\* C37: identity is (uid, calendar_id): the item steps and the sweep of one
\* calendar insert, overwrite and delete only records of that calendar, a
\* commit writes only the records the pass handled, and a commit that would
\* store a second record of an existing (uid, calendar_id) stores nothing.
C37_IdentityFrame ==
    [][\A p \in Slots :
         /\ (ItemStep(p) \/ Sweeps(p)) => OthersKept(pass[p], pass'[p], Head(pass[p].cals))
         /\ Returns(p) =>
               /\ \A k \in Keys \ DOMAIN pass[p].sess :
                     /\ k \in DOMAIN events' <=> k \in DOMAIN events
                     /\ k \in DOMAIN events => events'[k] = events[k]
               /\ (\E k \in DOMAIN pass[p].sess \cap DOMAIN events :
                       pass[p].sess[k].op = "insert") => events' = events
      ]_vars

\* a pass that stored the event of one calendar is about to handle the event
\* of the same uid in the other calendar
C37_Witness ==
    \E p \in Slots :
        /\ pass[p].pc = "items"
        /\ pass[p].dav_events # <<>>
        /\ Head(pass[p].cals) = "c2"
        /\ parse_icalendar(Head(pass[p].dav_events).data).uid = "u3"
        /\ SessionHas(p, <<"c1", "u3">>)

\* the calls of stop_sync_scheduler: disconnect and shutdown
Stops == disconnect_from_fastmail \/ LifespanShutdown

\* C38: at most one loop task exists, and it is the one _sync_task refers
\* to; starting while a task is running creates no second task and stopping
\* when none runs changes nothing.
C38_OneLoopTask ==
    [][/\ loop_tasks' <= 1
       /\ loop_tasks' = 1 <=> sync_task' # "None"
       /\ (connect_to_fastmail /\ sync_task # "None") =>
             loop_tasks' = loop_tasks /\ sync_task' = sync_task
       /\ (Stops /\ sync_task = "None") =>
             /\ loop_tasks' = loop_tasks
             /\ sync_task' = sync_task
             /\ sync_in_progress' = sync_in_progress
             /\ pass' = pass
      ]_vars

\* the application was shut down without stored credentials and before any
\* connect: stop_sync_scheduler was called when no task ran
C38_Witness ==
    /\ app = "stopped"
    /\ ~credentials
    /\ envEvents = 0
    /\ sync_task = "None"
    /\ loop_tasks = 0

\* C39: every perform_sync invocation that sets the in-flight flag
\* eventually clears it (on success, on an exception of the pass, on
\* cancellation), and an invocation starts a pass, sets the flag or moves the
\* last-sync time only when a session exists and the flag is clear.
C39_FlagEventuallyCleared ==
    /\ sync_in_progress ~> ~sync_in_progress
    /\ [][(sync_task = "sleeping" /\ (~caldav_service \/ sync_in_progress)) =>
             /\ sync_task' # "syncing"
             /\ sync_in_progress' = sync_in_progress
             /\ last_sync_time' = last_sync_time
         ]_vars

\* the scheduler's pass has set the flag and is at a commit that will raise
C39_Witness ==
    /\ sync_in_progress
    /\ sync_task = "syncing"
    /\ pass["sched"].pc = "commit"
    /\ CommitFails(pass["sched"].sess)

\* C40: every record in pending_update has a remote handle: an edit of a
\* record that was never pushed leaves it in pending_create.
C40_PendingUpdateHasHandle ==
    \A k \in DOMAIN events :
        events[k].sync_status = "pending_update" => events[k].href # None
====
